---------------------------- MODULE Spec2Model ----------------------------
(***************************************************************************)
(* A model of bot.py: the Telegram assistant's handlers (start_handler,    *)
(* help_handler, message_handler, error_handler), the generation call      *)
(* call_openai and the keyword matcher contains_sensitive_keyword.         *)
(*                                                                         *)
(* A Python str is a sequence of symbols.  Text that the program looks     *)
(* inside (strip, lower, substring search) is spelled one character per    *)
(* symbol; a fixed literal that the program only concatenates or passes on *)
(* is carried as one symbol holding the literal.                           *)
(*                                                                         *)
(* An Optional value is None or Some(v).                                   *)
(*                                                                         *)
(* Spec starts where the module's globals are bound and main() has         *)
(* registered the handlers; it processes one update at a time, each action *)
(* running a handler from one await to the next.                           *)
(***************************************************************************)
EXTENDS Integers, Sequences, FiniteSets, TLC

None == [some |-> FALSE]
Some(v) == [some |-> TRUE, val |-> v]

(***************************************************************************)
(* Bounds of the inputs.                                                   *)
(***************************************************************************)
\* A message text is made of at most MaxPieces pieces of Pieces.
MaxPieces == 2

\* Beside the run that is executing, at most MaxSuspended runs of the
\* handlers wait at an await.
MaxSuspended == 1

(***************************************************************************)
(* Characters and the str methods the program calls.                       *)
(***************************************************************************)
UpperCase == <<"A", "B", "C", "D", "E", "F", "G", "H", "I", "J", "K", "L", "M",
               "N", "O", "P", "Q", "R", "S", "T", "U", "V", "W", "X", "Y", "Z", "È">>
LowerCase == <<"a", "b", "c", "d", "e", "f", "g", "h", "i", "j", "k", "l", "m",
               "n", "o", "p", "q", "r", "s", "t", "u", "v", "w", "x", "y", "z", "è">>

\* The characters str.strip() removes from both ends.
Whitespace == {" ", "\n", "\t"}

\* The lowercase letter of every uppercase letter.
LowerTable ==
    [c \in { UpperCase[i] : i \in 1..Len(UpperCase) } |->
        LowerCase[CHOOSE i \in 1..Len(UpperCase) : UpperCase[i] = c]]

\* str.lower() on one character.
LowerChar(c) == IF c \in DOMAIN LowerTable THEN LowerTable[c] ELSE c

\* str.lower(): every character lowered, the length kept.
lower(s) == [i \in 1..Len(s) |-> LowerChar(s[i])]

RECURSIVE lstrip(_)
lstrip(s) ==
    IF s = <<>> THEN s
    ELSE IF Head(s) \in Whitespace THEN lstrip(Tail(s)) ELSE s

RECURSIVE rstrip(_)
rstrip(s) ==
    IF s = <<>> THEN s
    ELSE IF s[Len(s)] \in Whitespace THEN rstrip(SubSeq(s, 1, Len(s) - 1)) ELSE s

\* str.strip(): leading and trailing whitespace removed.
strip(s) == rstrip(lstrip(s))

\* Python's `k in t` on two strs: k occurs in t as a contiguous run.
StrIn(k, t) ==
    \E off \in 0..(Len(t) - Len(k)) : SubSeq(t, off + 1, off + Len(k)) = k

\* str(n) of a non-negative int: its decimal digits.
Digits == <<"0", "1", "2", "3", "4", "5", "6", "7", "8", "9">>

RECURSIVE str(_)
str(n) ==
    IF n < 10 THEN <<Digits[n + 1]>>
    ELSE Append(str(n \div 10), Digits[(n % 10) + 1])

(***************************************************************************)
(* Module-level constants of bot.py.                                       *)
(***************************************************************************)
\* The defaults of OPENAI_MODEL and OPENAI_MAX_TOKENS, and the temperature
\* of every request.
DEFAULT_MODEL == "gpt-3.5-turbo"
DEFAULT_MAX_TOKENS == 400
TEMPERATURE == "0.3"

\* int(s) of a str of decimal digits; IsDigits is where int(s) does not
\* raise ValueError, for the values the environment holds here.
DigitValue(c) == (CHOOSE i \in 1..Len(Digits) : Digits[i] = c) - 1

IsDigits(s) ==
    /\ s # <<>>
    /\ \A i \in 1..Len(s) : \E j \in 1..Len(Digits) : Digits[j] = s[i]

RECURSIVE int(_)
int(s) ==
    IF Len(s) = 1 THEN DigitValue(s[1])
    ELSE 10 * int(SubSeq(s, 1, Len(s) - 1)) + DigitValue(s[Len(s)])

\* os.getenv("OPENAI_MODEL", "gpt-3.5-turbo")
ReadModel(env) == IF env.some THEN env.val ELSE DEFAULT_MODEL

\* int(os.getenv("OPENAI_MAX_TOKENS", "400")), 400 on ValueError
ReadMaxTokens(env) ==
    IF ~env.some THEN DEFAULT_MAX_TOKENS
    ELSE IF IsDigits(env.val) THEN int(env.val) ELSE DEFAULT_MAX_TOKENS

\* The disclaimer's text; its typographic hyphen and apostrophes are written
\* in ASCII here.
DISCLAIMER ==
    <<"⚠ Les informations fournies par cet assistant virtuel sont données à titre informatif uniquement et ne sauraient constituer un conseil juridique, fiscal ou immobilier personnalisé. Pour toute décision engageant des conséquences juridiques ou financières, il est fortement recommandé de consulter un professionnel qualifié (avocat, notaire, expert-comptable). Aucune responsabilité ne pourra être retenue à l'encontre de l'auteur ou de l'éditeur de ce service en cas d'erreur ou d'omission.">>

SENSITIVE_KEYWORDS ==
    << <<"p", "r", "o", "c", "è", "s">>,
       <<"a", "v", "o", "c", "a", "t">>,
       <<"l", "i", "t", "i", "g", "e">> >>

system_message ==
    <<"Vous êtes Mathieu Lantoine, agent immobilier spécialisé à Nice (06). Vous répondez en tant qu'assistant virtuel de Mathieu Lantoine. Vous devez répondre en français de manière factuelle, professionnelle et modeste. Si une question sort du domaine de l'immobilier ou du droit immobilier français, expliquez poliment que vous ne pouvez répondre qu'à ce type de question.">>

\* The string call_openai returns when the completion call fails.
APOLOGY ==
    <<"Je rencontre actuellement un problème pour générer une réponse via le modèle. Veuillez réessayer plus tard.">>

\* A greeting that carries the disclaimer of the generated replies.
welcome_message_disclaimed ==
    <<"Bonjour ! Je suis l'assistant virtuel de Mathieu Lantoine.">>
        \o <<"\n", "\n">> \o DISCLAIMER

welcome_message ==
    <<"Bonjour ! Je suis l'assistant virtuel de Mathieu Lantoine, agent immobilier spécialisé à Nice (06). Posez-moi vos questions sur l'immobilier, le droit immobilier, la fiscalité immobilière ou les SCI et je ferai de mon mieux pour vous répondre.">>

help_message ==
    <<"Je suis un assistant virtuel spécialisé en droit et fiscalité immobiliers. Posez votre question de manière claire et je vous fournirai une réponse aussi précise que possible, accompagnée d'un disclaimer juridique obligatoire.">>

\* The text error_handler replies with.
UNEXPECTED_ERROR ==
    <<"Une erreur inattendue est survenue. Veuillez réessayer plus tard.">>

(***************************************************************************)
(* contains_sensitive_keyword.                                             *)
(***************************************************************************)
\* The for loop over SENSITIVE_KEYWORDS from position i on: the first
\* keyword found in lower_text is returned, None when the list is exhausted.
RECURSIVE KeywordLoop(_, _)
KeywordLoop(lower_text, i) ==
    IF i > Len(SENSITIVE_KEYWORDS) THEN None
    ELSE IF StrIn(SENSITIVE_KEYWORDS[i], lower_text)
         THEN Some(SENSITIVE_KEYWORDS[i])
         ELSE KeywordLoop(lower_text, i + 1)

\* A matcher that searches the text as it is, not lowered.
contains_sensitive_keyword_cased(text) ==
    KeywordLoop(IF text.some THEN text.val ELSE <<>>, 1)

\* text is an Optional str; a None or empty text is searched as "".
contains_sensitive_keyword(text) ==
    LET lower_text == IF text.some /\ text.val # <<>> THEN lower(text.val) ELSE <<>>
    IN  KeywordLoop(lower_text, 1)

(***************************************************************************)
(* The pieces of message_handler, call_openai and error_handler.           *)
(***************************************************************************)
\* A truthy Optional str: neither None nor "".
Truthy(opt) == opt.some /\ opt.val # <<>>

\* A user_text that keeps the text as received.
UserText_unstripped(message) ==
    IF Truthy(message.text) THEN message.text.val ELSE <<>>

\* user_text: the message's text stripped, "" when the text is None or "".
UserText(message) ==
    IF Truthy(message.text) THEN strip(message.text.val) ELSE <<>>

\* A notification that names the sender without the id.
notify_message_without_id(sensitive, effective_user) ==
    <<"Mot clé sensible détecté : '">> \o sensitive
        \o <<"' dans le message de ">> \o effective_user.first_name \o <<".">>

\* The f-string of the admin notification.
notify_message(sensitive, effective_user) ==
    <<"Mot clé sensible détecté : '">> \o sensitive
        \o <<"' dans le message de ">> \o effective_user.first_name
        \o <<" (">> \o str(effective_user.id) \o <<").">>

\* A request whose system instructions repeat the user's prompt.
GenerationRequest_echoing_prompt(prompt, new_sdk, model, max_tokens) ==
    [api         |-> IF new_sdk THEN "chat.completions.create"
                     ELSE "ChatCompletion.acreate",
     model       |-> model,
     messages    |-> << [role |-> "system", content |-> system_message \o prompt],
                        [role |-> "user", content |-> prompt] >>,
     temperature |-> TEMPERATURE,
     max_tokens  |-> max_tokens]

\* The request call_openai sends; api names the client method of the SDK in use.
GenerationRequest(prompt, new_sdk, model, max_tokens) ==
    [api         |-> IF new_sdk THEN "chat.completions.create"
                     ELSE "ChatCompletion.acreate",
     model       |-> model,
     messages    |-> << [role |-> "system", content |-> system_message],
                        [role |-> "user", content |-> prompt] >>,
     temperature |-> TEMPERATURE,
     max_tokens  |-> max_tokens]

\* What the awaited completion call can do.
\*   ok:           a response whose first choice has the content `content`
\*   no_choices:   a response with an empty choices list (IndexError)
\*   null_content: a first choice whose content is None (AttributeError)
\*   api_error, timeout: the client raises
FailureKinds == {"no_choices", "null_content", "api_error", "timeout"}

\* The try block of call_openai raises on this outcome.
CompletionRaises(outcome) == outcome.kind \in FailureKinds

\* A call_openai that catches the client's errors only.
call_openai_propagates_malformed(outcome) ==
    outcome.kind \in {"no_choices", "null_content"}

\* Whether an exception raised in call_openai's try block leaves call_openai.
\* `except Exception` catches every one of them.
call_openai_propagates(outcome) == FALSE

\* A call_openai that answers a malformed response with an empty text.
call_openai_return_empty(outcome) ==
    IF outcome.kind \in {"api_error", "timeout"} THEN APOLOGY
    ELSE IF outcome.kind = "ok" THEN strip(outcome.content) ELSE <<>>

\* call_openai's return value.
call_openai_return(outcome) ==
    IF CompletionRaises(outcome) THEN APOLOGY ELSE strip(outcome.content)

\* A composition that leaves the fallback apology without disclaimer.
full_response_bare_apology(response) ==
    IF response = APOLOGY THEN response
    ELSE response \o <<"\n", "\n">> \o DISCLAIMER

\* full_response = f"{response}\n\n{DISCLAIMER}"
full_response(response) == response \o <<"\n", "\n">> \o DISCLAIMER

\* The guard of the notification: `if sensitive and ADMIN_CHAT_ID`.
AlertWanted(sensitive, admin_chat_id) == sensitive.some /\ Truthy(admin_chat_id)

\* A notification with no try block around it.
alert_propagates_uncaught(outcome) == TRUE

\* Whether an exception raised inside the notification's try block leaves
\* message_handler.  `except Exception` logs a warning and goes on.
alert_propagates(outcome) == FALSE

\* An error_handler that only logs.
error_handler_only_logs(upd) == FALSE

\* error_handler's guard: `isinstance(update, Update) and update.message`.
error_handler_replies(upd) == upd.some /\ upd.val.message.some

(***************************************************************************)
(* Inputs.                                                                 *)
(***************************************************************************)
Pieces ==
    { <<" ">>, <<"x">>,
      <<"p", "r", "o", "c", "è", "s">>,
      <<"A", "V", "O", "C", "A", "T">>,
      <<"L", "i", "t", "i", "g", "e">> }

RECURSIVE TextsOf(_)
TextsOf(n) ==
    IF n = 0 THEN { <<>> }
    ELSE LET shorter == TextsOf(n - 1)
         IN  shorter \cup { t \o p : t \in shorter, p \in Pieces }

\* The texts of a text message.  filters.TEXT passes no message without text.
Texts == TextsOf(MaxPieces) \ { <<>> }

Users ==
    { [first_name |-> <<"A", "n", "a">>, id |-> 42],
      [first_name |-> <<"B", "o">>, id |-> 7] }

\* What the backend returns as the first choice's content.
Contents == { <<"o", "k">>, <<" ", "o", "k", "\n">>, <<" ">> }

CompletionOutcomes ==
    { [kind |-> "ok", content |-> c] : c \in Contents }
        \cup { [kind |-> k] : k \in FailureKinds }

\* What an awaited send (reply_text, send_message) can do.
SendOutcomes == {"ok", "raise"}

\* The environments the process starts in: OPENAI_MODEL and OPENAI_MAX_TOKENS
\* unset or set (to a number or not), ADMIN_CHAT_ID unset, empty or set, and
\* the SDK installed (sdk_1: openai >= 1.0, which has AsyncOpenAI).
Environments ==
    { [OPENAI_MODEL |-> None, OPENAI_MAX_TOKENS |-> None,
       ADMIN_CHAT_ID |-> None, sdk_1 |-> TRUE],
      [OPENAI_MODEL |-> Some("gpt-4o"), OPENAI_MAX_TOKENS |-> Some(<<"8", "0", "0">>),
       ADMIN_CHAT_ID |-> Some(<<"4", "2", "4", "2">>), sdk_1 |-> TRUE],
      [OPENAI_MODEL |-> None, OPENAI_MAX_TOKENS |-> Some(<<"a", "b", "c">>),
       ADMIN_CHAT_ID |-> Some(<<>>), sdk_1 |-> FALSE],
      [OPENAI_MODEL |-> Some("gpt-4o"), OPENAI_MAX_TOKENS |-> None,
       ADMIN_CHAT_ID |-> Some(<<"4", "2", "4", "2">>), sdk_1 |-> FALSE] }

\* A credential as the environment holds it: unset, set to the empty string,
\* or set to a value.
TOKEN == <<"t", "o", "k", "e", "n">>
API_KEY == <<"k", "e", "y">>
TokenSettings == { None, Some(<<>>), Some(TOKEN) }
ApiKeySettings == { None, Some(<<>>), Some(API_KEY) }

\* An environment together with its two credentials.
WithCredentials(env, token, key) ==
    [OPENAI_MODEL |-> env.OPENAI_MODEL, OPENAI_MAX_TOKENS |-> env.OPENAI_MAX_TOKENS,
     ADMIN_CHAT_ID |-> env.ADMIN_CHAT_ID, sdk_1 |-> env.sdk_1,
     TELEGRAM_TOKEN |-> token, OPENAI_API_KEY |-> key]

StartupEnvironments ==
    { WithCredentials(env, t, k) :
        env \in Environments, t \in TokenSettings, k \in ApiKeySettings }

\* The text of a command message.
CommandText(kind) ==
    IF kind = "start" THEN <<"/", "s", "t", "a", "r", "t">>
    ELSE <<"/", "h", "e", "l", "p">>

\* What follows the command in a command message: nothing, or arguments.
CommandArguments ==
    { <<>>, <<" ", "p", "r", "o", "c", "è", "s">>, <<" ", "x">> }

\* An Update: the handler its filters select, its message (None for an update
\* that has no `message`, such as an edited message) and its effective_user.
Updates ==
    { [kind |-> "text", message |-> Some([text |-> Some(t)]), effective_user |-> u]
        : t \in Texts, u \in {None} \cup { Some(x) : x \in Users } }
    \cup { [kind |-> k, message |-> Some([text |-> Some(CommandText(k) \o a)]),
            effective_user |-> Some(x)]
            : k \in {"start", "help"}, a \in CommandArguments, x \in Users }
    \cup { [kind |-> k, message |-> None, effective_user |-> Some(x)]
            : k \in {"start", "help", "text"}, x \in Users }

(***************************************************************************)
(* State.                                                                  *)
(***************************************************************************)
VARIABLES
    OPENAI_MODEL,             \* read once at start-up
    OPENAI_MAX_TOKENS,        \* read once at start-up
    ADMIN_CHAT_ID,            \* Optional str, read once at start-up
    async_openai_available,   \* TRUE when the SDK offers AsyncOpenAI
    update,                   \* the Update being processed: None or Some(u)
    pc,                       \* where the processing of `update` stands
    user_text,                \* message_handler's local, Optional
    sensitive,                \* message_handler's local: the matcher's result
    response,                 \* message_handler's local: call_openai's result
    requests,                 \* completion requests sent for this update
    outbox,                   \* sends attempted for this update, in order
    log,                      \* logger calls made for this update, in order
    alert_outcome,            \* how the notification's try block ended
    completion_outcome,       \* what the completion call did: None or Some(o)
    reply_outcome,            \* how the handler's reply_text ended
    error_reply_outcome,      \* how error_handler's reply_text ended
    raised,                   \* an exception left the handler (or the polling)
    environ,                  \* the environment os.getenv reads
    TELEGRAM_TOKEN,           \* Optional str, read once at start-up
    OPENAI_API_KEY,           \* Optional str, read once at start-up
    handlers,                 \* what main has registered on the application
    namespace,                \* the module's execution: names bound, next statement
    runs                      \* message_handler's runs when several are in flight

vars ==
    <<OPENAI_MODEL, OPENAI_MAX_TOKENS, ADMIN_CHAT_ID, async_openai_available,
      environ, TELEGRAM_TOKEN, OPENAI_API_KEY, handlers, namespace, runs,
      update, pc, user_text, sensitive, response, requests, outbox, log, alert_outcome, completion_outcome,
      reply_outcome, error_reply_outcome, raised>>

config ==
    <<OPENAI_MODEL, OPENAI_MAX_TOKENS, ADMIN_CHAT_ID, async_openai_available,
      environ, TELEGRAM_TOKEN, OPENAI_API_KEY, handlers, namespace>>

\* The conversation update.message.reply_text writes to.
ORIGIN == <<"update.message.chat">>

ReplyText(text) == [via |-> "reply_text", to |-> ORIGIN, text |-> text]
SendMessage(chat_id, text) == [via |-> "send_message", to |-> chat_id, text |-> text]

(***************************************************************************)
(* The module's top-level statements, in source order: the names each one  *)
(* reads when it executes (annotations included: they are evaluated) and   *)
(* the names it binds.  The last one calls main, which reads its globals.  *)
(***************************************************************************)
\* Names every module finds bound before its first statement.
Builtins ==
    { "str", "int", "object", "ValueError", "ImportError", "RuntimeError",
      "__name__" }

ModuleStatements ==
    << [first |-> 29, last |-> 29,
        uses |-> {"str", "os"}, binds |-> {"OPENAI_MODEL"}],
       [first |-> 30, last |-> 33,
        uses |-> {"int", "os", "ValueError"}, binds |-> {"OPENAI_MAX_TOKENS"}],
       [first |-> 35, last |-> 35, uses |-> {}, binds |-> {"logging"}],
       [first |-> 36, last |-> 36, uses |-> {}, binds |-> {"os"}],
       [first |-> 37, last |-> 37, uses |-> {}, binds |-> {"threading"}],
       [first |-> 38, last |-> 38, uses |-> {}, binds |-> {"Optional"}],
       [first |-> 40, last |-> 40, uses |-> {}, binds |-> {"load_dotenv"}],
       [first |-> 41, last |-> 41, uses |-> {}, binds |-> {"Flask", "jsonify"}],
       [first |-> 42, last |-> 42, uses |-> {}, binds |-> {"Update"}],
       [first |-> 43, last |-> 49, uses |-> {},
        binds |-> {"ApplicationBuilder", "CommandHandler", "ContextTypes",
                   "MessageHandler", "filters"}],
       [first |-> 53, last |-> 53,
        uses |-> {}, binds |-> {"async_openai_available"}],
       [first |-> 54, last |-> 59,
        uses |-> {"ImportError"},
        binds |-> {"AsyncOpenAI", "async_openai_available"}],
       [first |-> 62, last |-> 62, uses |-> {"load_dotenv"}, binds |-> {}],
       [first |-> 64, last |-> 64,
        uses |-> {"Optional", "str", "os"}, binds |-> {"TELEGRAM_TOKEN"}],
       [first |-> 65, last |-> 65,
        uses |-> {"Optional", "str", "os"}, binds |-> {"OPENAI_API_KEY"}],
       [first |-> 66, last |-> 66,
        uses |-> {"Optional", "str", "os"}, binds |-> {"ADMIN_CHAT_ID"}],
       [first |-> 68, last |-> 71,
        uses |-> {"TELEGRAM_TOKEN", "RuntimeError"}, binds |-> {}],
       [first |-> 72, last |-> 75,
        uses |-> {"OPENAI_API_KEY", "RuntimeError"}, binds |-> {}],
       [first |-> 78, last |-> 85,
        uses |-> {"async_openai_available", "AsyncOpenAI", "OPENAI_API_KEY"},
        binds |-> {"openai_client"}],
       [first |-> 88, last |-> 91, uses |-> {"logging"}, binds |-> {}],
       [first |-> 92, last |-> 92,
        uses |-> {"logging", "__name__"}, binds |-> {"logger"}],
       [first |-> 95, last |-> 103, uses |-> {}, binds |-> {"DISCLAIMER"}],
       [first |-> 106, last |-> 106,
        uses |-> {}, binds |-> {"SENSITIVE_KEYWORDS"}],
       [first |-> 109, last |-> 155, uses |-> {"str"}, binds |-> {"call_openai"}],
       [first |-> 158, last |-> 164,
        uses |-> {"str", "Optional"}, binds |-> {"contains_sensitive_keyword"}],
       [first |-> 167, last |-> 176,
        uses |-> {"Update", "ContextTypes"}, binds |-> {"start_handler"}],
       [first |-> 179, last |-> 187,
        uses |-> {"Update", "ContextTypes"}, binds |-> {"help_handler"}],
       [first |-> 190, last |-> 216,
        uses |-> {"Update", "ContextTypes"}, binds |-> {"message_handler"}],
       [first |-> 219, last |-> 225,
        uses |-> {"object", "ContextTypes"}, binds |-> {"error_handler"}],
       [first |-> 228, last |-> 236, uses |-> {"Flask"}, binds |-> {"create_app"}],
       [first |-> 239, last |-> 271, uses |-> {}, binds |-> {"main"}],
       [first |-> 274, last |-> 275,
        uses |-> {"__name__", "main", "create_app", "threading",
                  "ApplicationBuilder", "TELEGRAM_TOKEN", "CommandHandler",
                  "MessageHandler", "filters", "start_handler", "help_handler",
                  "message_handler", "error_handler", "logger"},
        binds |-> {}] >>

\* The module before its first statement, and after its last.
ModuleEntered == [bound |-> Builtins, at |-> 1, NameError |-> {}]

ModuleLoaded ==
    [bound |-> Builtins \cup UNION { ModuleStatements[i].binds :
                                        i \in 1..Len(ModuleStatements) },
     at |-> Len(ModuleStatements) + 1,
     NameError |-> {}]

\* What main registers on the application.
RegisteredByMain ==
    { <<"CommandHandler", "start", "start_handler">>,
      <<"CommandHandler", "help", "help_handler">>,
      <<"MessageHandler", "TEXT & ~COMMAND", "message_handler">>,
      <<"error_handler", "", "error_handler">> }

\* A run of a handler that has received nothing yet.
IdleFrame ==
    [update |-> None, pc |-> "idle", user_text |-> None, sensitive |-> None,
     response |-> None, requests |-> <<>>, outbox |-> <<>>, log |-> <<>>,
     alert_outcome |-> "none", completion_outcome |-> None,
     reply_outcome |-> "none", error_reply_outcome |-> "none",
     raised |-> FALSE]

NoRuns == [j \in 1..MaxSuspended |-> IdleFrame]

\* The state of a fresh run: nothing is kept from one update to the next.
FreshRun ==
    /\ user_text' = None
    /\ sensitive' = None
    /\ response' = None
    /\ requests' = <<>>
    /\ outbox' = <<>>
    /\ log' = <<>>
    /\ alert_outcome' = "none"
    /\ completion_outcome' = None
    /\ reply_outcome' = "none"
    /\ error_reply_outcome' = "none"

Init ==
    /\ \E env \in Environments :
           /\ environ = WithCredentials(env, Some(TOKEN), Some(API_KEY))
           /\ OPENAI_MODEL = ReadModel(env.OPENAI_MODEL)
           /\ OPENAI_MAX_TOKENS = ReadMaxTokens(env.OPENAI_MAX_TOKENS)
           /\ ADMIN_CHAT_ID = env.ADMIN_CHAT_ID
           /\ async_openai_available = env.sdk_1
    /\ TELEGRAM_TOKEN = Some(TOKEN)
    /\ OPENAI_API_KEY = Some(API_KEY)
    /\ handlers = RegisteredByMain
    /\ namespace = ModuleLoaded
    /\ runs = NoRuns
    /\ update = None
    /\ pc = "idle"
    /\ user_text = None
    /\ sensitive = None
    /\ response = None
    /\ requests = <<>>
    /\ outbox = <<>>
    /\ log = <<>>
    /\ alert_outcome = "none"
    /\ completion_outcome = None
    /\ reply_outcome = "none"
    /\ error_reply_outcome = "none"
    /\ raised = FALSE

(***************************************************************************)
(* The application: one update at a time goes to the handler registered    *)
(* for it; an exception that leaves a handler goes to error_handler.       *)
(***************************************************************************)
Receive(u) ==
    /\ pc = "idle"
    /\ update' = Some(u)
    /\ pc' = "dispatched"
    /\ UNCHANGED <<config, runs, user_text, sensitive, response, requests, outbox, log,
                   alert_outcome, completion_outcome, reply_outcome,
                   error_reply_outcome, raised>>

\* The processing of the update is over: its handler's locals are gone, and
\* the application waits for the next update.
NextUpdate ==
    /\ pc = "finished"
    /\ update' = None
    /\ pc' = "idle"
    /\ raised' = FALSE
    /\ FreshRun
    /\ UNCHANGED <<config, runs>>

\* An error outside any update (the polling itself fails): error_handler is
\* called with no Update.
PollingError ==
    /\ pc = "idle"
    /\ pc' = "raised"
    /\ raised' = TRUE
    /\ UNCHANGED <<config, runs, update, user_text, sensitive, response, requests,
                   outbox, log, alert_outcome, completion_outcome, reply_outcome,
                   error_reply_outcome>>

(***************************************************************************)
(* start_handler and help_handler, up to the awaited reply_text.           *)
(***************************************************************************)
start_handler ==
    /\ pc = "dispatched"
    /\ update.val.kind = "start"
    /\ IF update.val.message.some
       THEN /\ outbox' = Append(outbox, ReplyText(welcome_message))
            /\ pc' = "await_reply"
       ELSE /\ pc' = "finished"
            /\ UNCHANGED outbox
    /\ UNCHANGED <<config, runs, update, user_text, sensitive, response, requests, log,
                   alert_outcome, completion_outcome, reply_outcome,
                   error_reply_outcome, raised>>

help_handler ==
    /\ pc = "dispatched"
    /\ update.val.kind = "help"
    /\ IF update.val.message.some
       THEN /\ outbox' = Append(outbox, ReplyText(help_message))
            /\ pc' = "await_reply"
       ELSE /\ pc' = "finished"
            /\ UNCHANGED outbox
    /\ UNCHANGED <<config, runs, update, user_text, sensitive, response, requests, log,
                   alert_outcome, completion_outcome, reply_outcome,
                   error_reply_outcome, raised>>

(***************************************************************************)
(* message_handler and call_openai, cut at the awaits.                     *)
(***************************************************************************)
\* call_openai(prompt) up to its awaited completion call: one request.
CallOpenAI(prompt) ==
    /\ requests' = Append(requests,
           GenerationRequest(prompt, async_openai_available,
                             OPENAI_MODEL, OPENAI_MAX_TOKENS))
    /\ pc' = "await_completion"

\* An exception leaves the handler: the application calls its error handlers.
Raise ==
    /\ pc' = "raised"
    /\ raised' = TRUE

\* From the entry to the first await: the guard on update.message, the strip,
\* the keyword match, the notification's body and send_message, or, with no
\* notification to send, call_openai's request.
message_handler ==
    /\ pc = "dispatched"
    /\ update.val.kind = "text"
    /\ IF ~update.val.message.some
       THEN /\ pc' = "finished"
            /\ UNCHANGED <<user_text, sensitive, requests, outbox, log,
                           alert_outcome, raised>>
       ELSE LET text == UserText(update.val.message.val)
                match == contains_sensitive_keyword(Some(text))
            IN  /\ user_text' = Some(text)
                /\ sensitive' = match
                /\ IF ~AlertWanted(match, ADMIN_CHAT_ID)
                   THEN \* no notification
                        /\ CallOpenAI(text)
                        /\ UNCHANGED <<outbox, log, alert_outcome, raised>>
                   ELSE IF ~update.val.effective_user.some
                   THEN \* update.effective_user.first_name: AttributeError
                        /\ alert_outcome' = "no_sender"
                        /\ IF alert_propagates("no_sender")
                           THEN Raise /\ UNCHANGED <<requests, log>>
                           ELSE /\ log' = Append(log, "warning: notification admin")
                                /\ CallOpenAI(text)
                                /\ UNCHANGED raised
                        /\ UNCHANGED outbox
                   ELSE /\ outbox' = Append(outbox,
                               SendMessage(ADMIN_CHAT_ID.val,
                                   notify_message(match.val,
                                                  update.val.effective_user.val)))
                        /\ pc' = "await_alert"
                        /\ UNCHANGED <<requests, log, alert_outcome, raised>>
    /\ UNCHANGED <<config, runs, update, response, completion_outcome, reply_outcome,
                   error_reply_outcome>>

\* The awaited send_message returns or raises; then call_openai's request.
message_handler_after_alert(outcome) ==
    /\ pc = "await_alert"
    /\ alert_outcome' = outcome
    /\ IF outcome = "raise" /\ alert_propagates(outcome)
       THEN Raise /\ UNCHANGED <<requests, log>>
       ELSE /\ log' = IF outcome = "raise"
                      THEN Append(log, "warning: notification admin")
                      ELSE log
            /\ CallOpenAI(user_text.val)
            /\ UNCHANGED raised
    /\ UNCHANGED <<config, runs, update, user_text, sensitive, response, outbox,
                   completion_outcome, reply_outcome, error_reply_outcome>>

\* The awaited completion returns or raises; call_openai returns; the
\* disclaimer is appended and reply_text is called.
message_handler_after_completion(outcome) ==
    /\ pc = "await_completion"
    /\ completion_outcome' = Some(outcome)
    /\ IF CompletionRaises(outcome) /\ call_openai_propagates(outcome)
       THEN Raise /\ UNCHANGED <<response, outbox, log>>
       ELSE LET result == call_openai_return(outcome)
            IN  /\ log' = IF CompletionRaises(outcome)
                          THEN Append(log, "exception: appel OpenAI")
                          ELSE log
                /\ response' = Some(result)
                /\ outbox' = Append(outbox, ReplyText(full_response(result)))
                /\ pc' = "await_reply"
                /\ UNCHANGED raised
    /\ UNCHANGED <<config, runs, update, user_text, sensitive, requests, alert_outcome,
                   reply_outcome, error_reply_outcome>>

\* A handler that sends its reply once more when reply_text raised.
handler_reply_retries(outcome) ==
    /\ pc = "await_reply"
    /\ reply_outcome' = outcome
    /\ IF outcome = "raise" /\ reply_outcome = "none"
       THEN /\ outbox' = Append(outbox, outbox[Len(outbox)])
            /\ UNCHANGED <<pc, raised>>
       ELSE IF outcome = "raise"
       THEN Raise /\ UNCHANGED outbox
       ELSE pc' = "finished" /\ UNCHANGED <<raised, outbox>>
    /\ UNCHANGED <<config, runs, update, user_text, sensitive, response, requests,
                   log, alert_outcome, completion_outcome, error_reply_outcome>>

\* A handler that goes on after its reply and fails there.
handler_raises_after_reply(outcome) ==
    /\ pc = "await_reply"
    /\ reply_outcome' = outcome
    /\ Raise
    /\ UNCHANGED <<config, runs, update, user_text, sensitive, response, requests,
                   outbox, log, alert_outcome, completion_outcome,
                   error_reply_outcome>>

\* A handler's awaited reply_text returns, and the handler with it, or raises:
\* no handler catches it.
handler_reply_returns(outcome) ==
    /\ pc = "await_reply"
    /\ reply_outcome' = outcome
    /\ IF outcome = "raise"
       THEN Raise
       ELSE pc' = "finished" /\ UNCHANGED raised
    /\ UNCHANGED <<config, runs, update, user_text, sensitive, response, requests,
                   outbox, log, alert_outcome, completion_outcome,
                   error_reply_outcome>>

(***************************************************************************)
(* error_handler.                                                          *)
(***************************************************************************)
error_handler ==
    /\ pc = "raised"
    /\ log' = Append(log, "error: Exception non gérée")
    /\ IF error_handler_replies(update)
       THEN /\ outbox' = Append(outbox, ReplyText(UNEXPECTED_ERROR))
            /\ pc' = "await_error_reply"
       ELSE /\ pc' = "finished"
            /\ UNCHANGED outbox
    /\ UNCHANGED <<config, runs, update, user_text, sensitive, response, requests,
                   alert_outcome, completion_outcome, reply_outcome,
                   error_reply_outcome, raised>>

\* error_handler's awaited reply_text returns or raises; an exception of an
\* error handler is logged by the application and goes no further.
error_handler_reply_returns(outcome) ==
    /\ pc = "await_error_reply"
    /\ error_reply_outcome' = outcome
    /\ pc' = "finished"
    /\ UNCHANGED <<config, runs, update, user_text, sensitive, response, requests,
                   outbox, log, alert_outcome, completion_outcome, reply_outcome,
                   raised>>

Next ==
    \/ \E u \in Updates : Receive(u)
    \/ NextUpdate
    \/ PollingError
    \/ start_handler
    \/ help_handler
    \/ message_handler
    \/ \E o \in SendOutcomes : message_handler_after_alert(o)
    \/ \E o \in CompletionOutcomes : message_handler_after_completion(o)
    \/ \E o \in SendOutcomes : handler_reply_returns(o)
    \/ error_handler
    \/ \E o \in SendOutcomes : error_handler_reply_returns(o)

Spec == Init /\ [][Next]_vars

(***************************************************************************)
(* Start-up by its values: what the module's statements and main compute,  *)
(* in source order, every name taken as bound where it is read (the        *)
(* binding of names is ExecStatement's subject, below).                    *)
(***************************************************************************)
HandlerLocals ==
    <<update, user_text, sensitive, response, requests, outbox, log,
      alert_outcome, completion_outcome, reply_outcome, error_reply_outcome,
      raised>>

StartupInit ==
    /\ environ \in StartupEnvironments
    /\ OPENAI_MODEL = None
    /\ OPENAI_MAX_TOKENS = None
    /\ ADMIN_CHAT_ID = None
    /\ async_openai_available = FALSE
    /\ TELEGRAM_TOKEN = None
    /\ OPENAI_API_KEY = None
    /\ handlers = {}
    /\ namespace = ModuleLoaded
    /\ runs = NoRuns
    /\ pc = "read_openai_settings"
    /\ update = None
    /\ user_text = None
    /\ sensitive = None
    /\ response = None
    /\ requests = <<>>
    /\ outbox = <<>>
    /\ log = <<>>
    /\ alert_outcome = "none"
    /\ completion_outcome = None
    /\ reply_outcome = "none"
    /\ error_reply_outcome = "none"
    /\ raised = FALSE

\* OPENAI_MODEL and OPENAI_MAX_TOKENS, with their defaults.
read_openai_settings ==
    /\ pc = "read_openai_settings"
    /\ OPENAI_MODEL' = ReadModel(environ.OPENAI_MODEL)
    /\ OPENAI_MAX_TOKENS' = ReadMaxTokens(environ.OPENAI_MAX_TOKENS)
    /\ pc' = "import_openai"
    /\ UNCHANGED <<ADMIN_CHAT_ID, async_openai_available, environ,
                   TELEGRAM_TOKEN, OPENAI_API_KEY, handlers, namespace, runs,
                   HandlerLocals>>

\* from openai import AsyncOpenAI succeeds with an SDK >= 1.0 only.
import_openai ==
    /\ pc = "import_openai"
    /\ async_openai_available' = environ.sdk_1
    /\ pc' = "load_environment"
    /\ UNCHANGED <<OPENAI_MODEL, OPENAI_MAX_TOKENS, ADMIN_CHAT_ID, environ,
                   TELEGRAM_TOKEN, OPENAI_API_KEY, handlers, namespace, runs,
                   HandlerLocals>>

\* The three os.getenv reads that follow load_dotenv.
load_environment ==
    /\ pc = "load_environment"
    /\ TELEGRAM_TOKEN' = environ.TELEGRAM_TOKEN
    /\ OPENAI_API_KEY' = environ.OPENAI_API_KEY
    /\ ADMIN_CHAT_ID' = environ.ADMIN_CHAT_ID
    /\ pc' = "check_credentials"
    /\ UNCHANGED <<OPENAI_MODEL, OPENAI_MAX_TOKENS, async_openai_available,
                   environ, handlers, namespace, runs, HandlerLocals>>

\* A check that refuses an unset credential only.
credential_missing_unset_only(value) == ~value.some

\* `if not X`: unset (None) or empty.
credential_missing(value) == ~Truthy(value)

\* The two checks: RuntimeError ends the process.
check_credentials ==
    /\ pc = "check_credentials"
    /\ pc' = IF credential_missing(TELEGRAM_TOKEN)
                 THEN "RuntimeError: TELEGRAM_TOKEN"
             ELSE IF credential_missing(OPENAI_API_KEY)
                 THEN "RuntimeError: OPENAI_API_KEY"
             ELSE "instantiate_client"
    /\ UNCHANGED <<config, runs, HandlerLocals>>

\* The OpenAI client, the logger and the module's constants.
instantiate_client ==
    /\ pc = "instantiate_client"
    /\ pc' = "main"
    /\ UNCHANGED <<config, runs, HandlerLocals>>

\* main up to run_polling: the Flask thread, the application, its handlers.
main ==
    /\ pc = "main"
    /\ handlers' = RegisteredByMain
    /\ pc' = "run_polling"
    /\ UNCHANGED <<OPENAI_MODEL, OPENAI_MAX_TOKENS, ADMIN_CHAT_ID,
                   async_openai_available, environ, TELEGRAM_TOKEN,
                   OPENAI_API_KEY, namespace, runs, HandlerLocals>>

\* application.run_polling(): the bot serves updates from here on.
run_polling ==
    /\ pc = "run_polling"
    /\ pc' = "idle"
    /\ UNCHANGED <<config, runs, HandlerLocals>>

StartupNext ==
    \/ read_openai_settings
    \/ import_openai
    \/ load_environment
    \/ check_credentials
    \/ instantiate_client
    \/ main
    \/ run_polling
    \/ \E u \in Updates : Receive(u)
    \/ NextUpdate
    \/ PollingError
    \/ start_handler
    \/ help_handler
    \/ message_handler
    \/ \E o \in SendOutcomes : message_handler_after_alert(o)
    \/ \E o \in CompletionOutcomes : message_handler_after_completion(o)
    \/ \E o \in SendOutcomes : handler_reply_returns(o)
    \/ error_handler
    \/ \E o \in SendOutcomes : error_handler_reply_returns(o)

StartupSpec == StartupInit /\ [][StartupNext]_vars

(***************************************************************************)
(* The module's execution by its names: one statement at a time, a         *)
(* NameError at the first name read before anything bound it.              *)
(***************************************************************************)
\* Every setting unset, wrongly set or set, in every combination.
ImportEnvironments ==
    [OPENAI_MODEL : { None, Some("gpt-4o") },
     OPENAI_MAX_TOKENS : { None, Some(<<"8", "0", "0">>), Some(<<"a", "b", "c">>) },
     ADMIN_CHAT_ID : { None, Some(<<>>), Some(<<"4", "2", "4", "2">>) },
     sdk_1 : BOOLEAN,
     TELEGRAM_TOKEN : TokenSettings,
     OPENAI_API_KEY : ApiKeySettings]

ImportInit ==
    /\ environ \in ImportEnvironments
    /\ OPENAI_MODEL = None
    /\ OPENAI_MAX_TOKENS = None
    /\ ADMIN_CHAT_ID = None
    /\ async_openai_available = FALSE
    /\ TELEGRAM_TOKEN = None
    /\ OPENAI_API_KEY = None
    /\ handlers = {}
    /\ namespace = ModuleEntered
    /\ runs = NoRuns
    /\ pc = "import"
    /\ update = None
    /\ user_text = None
    /\ sensitive = None
    /\ response = None
    /\ requests = <<>>
    /\ outbox = <<>>
    /\ log = <<>>
    /\ alert_outcome = "none"
    /\ completion_outcome = None
    /\ reply_outcome = "none"
    /\ error_reply_outcome = "none"
    /\ raised = FALSE

\* The next statement executes: it binds its names when every name it reads
\* is bound, and raises NameError otherwise, which ends the process.
ExecStatement ==
    /\ namespace.NameError = {}
    /\ namespace.at <= Len(ModuleStatements)
    /\ LET statement == ModuleStatements[namespace.at]
           unbound == statement.uses \ namespace.bound
       IN  namespace' =
               IF unbound = {}
               THEN [bound |-> namespace.bound \cup statement.binds,
                     at |-> namespace.at + 1,
                     NameError |-> {}]
               ELSE [namespace EXCEPT !.NameError = unbound]
    /\ UNCHANGED <<OPENAI_MODEL, OPENAI_MAX_TOKENS, ADMIN_CHAT_ID,
                   async_openai_available, environ, TELEGRAM_TOKEN,
                   OPENAI_API_KEY, handlers, runs, pc, HandlerLocals>>

ImportNext == ExecStatement

ImportSpec == ImportInit /\ [][ImportNext]_vars

(***************************************************************************)
(* Several runs in flight.  The variables of a handler's run are those of  *)
(* the run that is executing; a run waiting at an await keeps its own in   *)
(* `runs`.  At any point between two steps the application may go on with  *)
(* another run: the executing run is suspended and a waiting one resumes.  *)
(***************************************************************************)
\* The texts and the completion outcomes of the runs in flight.
RunUpdates ==
    { [kind |-> "text", message |-> Some([text |-> Some(t)]),
       effective_user |-> Some([first_name |-> <<"A", "n", "a">>, id |-> 42])]
        : t \in { <<" ", "x">>, <<"p", "r", "o", "c", "è", "s">> } }

RunCompletionOutcomes ==
    { [kind |-> "ok", content |-> <<" ", "o", "k", "\n">>],
      [kind |-> "api_error"] }

\* The executing run, as it is kept while it waits.
Suspended ==
    [update |-> update, pc |-> pc, user_text |-> user_text,
     sensitive |-> sensitive, response |-> response, requests |-> requests,
     outbox |-> outbox, log |-> log, alert_outcome |-> alert_outcome,
     completion_outcome |-> completion_outcome,
     reply_outcome |-> reply_outcome,
     error_reply_outcome |-> error_reply_outcome, raised |-> raised]

\* A resumption that finds user_text where the last run left it, as a
\* module-level variable would be.
Resume_global_user_text(frame) ==
    /\ update' = frame.update
    /\ pc' = frame.pc
    /\ UNCHANGED user_text
    /\ sensitive' = frame.sensitive
    /\ response' = frame.response
    /\ requests' = frame.requests
    /\ outbox' = frame.outbox
    /\ log' = frame.log
    /\ alert_outcome' = frame.alert_outcome
    /\ completion_outcome' = frame.completion_outcome
    /\ reply_outcome' = frame.reply_outcome
    /\ error_reply_outcome' = frame.error_reply_outcome
    /\ raised' = frame.raised

\* A waiting run resumes with its own locals.
Resume(frame) ==
    /\ update' = frame.update
    /\ pc' = frame.pc
    /\ user_text' = frame.user_text
    /\ sensitive' = frame.sensitive
    /\ response' = frame.response
    /\ requests' = frame.requests
    /\ outbox' = frame.outbox
    /\ log' = frame.log
    /\ alert_outcome' = frame.alert_outcome
    /\ completion_outcome' = frame.completion_outcome
    /\ reply_outcome' = frame.reply_outcome
    /\ error_reply_outcome' = frame.error_reply_outcome
    /\ raised' = frame.raised

\* The executing run waits in place j, and the run that waited there resumes.
Yield(j) ==
    /\ runs' = [runs EXCEPT ![j] = Suspended]
    /\ Resume(runs[j])
    /\ UNCHANGED config

RunsNext ==
    \/ \E u \in RunUpdates : Receive(u)
    \/ message_handler
    \/ \E o \in SendOutcomes : message_handler_after_alert(o)
    \/ \E o \in RunCompletionOutcomes : message_handler_after_completion(o)
    \/ \E o \in SendOutcomes : handler_reply_returns(o)
    \/ error_handler
    \/ \E o \in SendOutcomes : error_handler_reply_returns(o)
    \/ \E j \in 1..MaxSuspended : Yield(j)

SpecRuns == Init /\ [][RunsNext]_vars

(***************************************************************************)
(* Vocabulary of the properties.                                           *)
(***************************************************************************)
\* The update being processed is a text event that carries a message.
TextMessage == update.some /\ update.val.kind = "text" /\ update.val.message.some

\* The raw text of that message.
RawText == update.val.message.val.text.val

\* A text with no character other than whitespace.
Blank(t) == \A i \in 1..Len(t) : t[i] \in Whitespace

\* message_handler has run to its end (it returned or an exception left it).
HandlerEnded == pc \in {"raised", "await_error_reply", "finished"}

\* The sends attempted to the originating conversation, to the admin, and
\* the attempted replies other than error_handler's.
OriginSends == SelectSeq(outbox, LAMBDA m : m.to = ORIGIN)
Alerts == SelectSeq(outbox, LAMBDA m : m.via = "send_message")
HandlerReplies == SelectSeq(OriginSends, LAMBDA m : m.text # UNEXPECTED_ERROR)
ErrorReplies == SelectSeq(OriginSends, LAMBDA m : m.text = UNEXPECTED_ERROR)

EndsWith(t, suffix) ==
    /\ Len(t) >= Len(suffix)
    /\ SubSeq(t, Len(t) - Len(suffix) + 1, Len(t)) = suffix

\* The text without its leading and trailing whitespace, said without strip:
\* the run between the first and the last non-whitespace character.
Trimmed(t) ==
    IF Blank(t) THEN <<>>
    ELSE LET first == CHOOSE i \in 1..Len(t) :
                          /\ t[i] \notin Whitespace
                          /\ \A j \in 1..(i - 1) : t[j] \in Whitespace
             last  == CHOOSE i \in 1..Len(t) :
                          /\ t[i] \notin Whitespace
                          /\ \A j \in (i + 1)..Len(t) : t[j] \in Whitespace
         IN  SubSeq(t, first, last)

\* The text call_openai is to return for an outcome of the completion call.
ExpectedResponse(outcome) ==
    IF outcome.kind = "ok" THEN Trimmed(outcome.content) ELSE APOLOGY

(***************************************************************************)
(* C1.  A text event whose trimmed text is not empty gets exactly one      *)
(* attempted send of a composed reply to the originating conversation,     *)
(* whatever the completion call and the notification did: never more than  *)
(* one, and exactly one once message_handler has ended.                    *)
(***************************************************************************)
C1_ExactlyOneComposedReply ==
    (TextMessage /\ ~Blank(RawText)) =>
        /\ Len(HandlerReplies) <= 1
        /\ \A i \in 1..Len(HandlerReplies) :
               /\ HandlerReplies[i].via = "reply_text"
               /\ EndsWith(HandlerReplies[i].text, DISCLAIMER)
        /\ HandlerEnded => Len(HandlerReplies) = 1

C1_Witness ==
    /\ TextMessage /\ ~Blank(RawText)
    /\ pc = "finished"
    /\ alert_outcome = "raise"
    /\ completion_outcome = Some([kind |-> "api_error"])
    /\ Len(HandlerReplies) = 1

(***************************************************************************)
(* C2.  Every reply message_handler sends is call_openai's returned text   *)
(* (the trimmed generated content, or the fixed apology), then "\n\n",     *)
(* then DISCLAIMER.                                                        *)
(***************************************************************************)
C2_ReplyIsResponseSeparatorDisclaimer ==
    TextMessage =>
        \A i \in 1..Len(HandlerReplies) :
            /\ response.some /\ completion_outcome.some
            /\ response.val = ExpectedResponse(completion_outcome.val)
            /\ HandlerReplies[i].text
                   = response.val \o <<"\n", "\n">> \o DISCLAIMER

C2_Witness ==
    /\ TextMessage
    /\ completion_outcome = Some([kind |-> "timeout"])
    /\ Len(HandlerReplies) = 1
    /\ HandlerReplies[1].text = APOLOGY \o <<"\n", "\n">> \o DISCLAIMER

(***************************************************************************)
(* C3.  A text event whose text is absent, empty or only whitespace ends   *)
(* at once: no completion request and no reply to the originating          *)
(* conversation.                                                           *)
(***************************************************************************)
C3_BlankTextNoGenerationNoReply ==
    (update.some /\ update.val.kind = "text"
        /\ (update.val.message.some => Blank(RawText))) =>
        /\ requests = <<>>
        /\ OriginSends = <<>>

(***************************************************************************)
(* C4.  call_openai never raises: whatever the completion call did, it     *)
(* returns, the fixed apology on every failure, and it has sent exactly    *)
(* one completion request.                                                 *)
(***************************************************************************)
C4_CallOpenAIReturnsAfterOneRequest ==
    /\ Len(requests) <= 1
    /\ completion_outcome.some =>
           /\ Len(requests) = 1
           /\ response.some
           /\ completion_outcome.val.kind \in FailureKinds => response.val = APOLOGY
           /\ reply_outcome = "none" => pc = "await_reply"

C4_Witness ==
    /\ completion_outcome = Some([kind |-> "null_content"])
    /\ response = Some(APOLOGY)
    /\ Len(requests) = 1
    /\ pc = "await_reply"

(***************************************************************************)
(* Vocabulary of the notification and of the matcher.                      *)
(***************************************************************************)
\* Keyword k occurs in text t, letter case ignored on both sides.
OccursIgnoringCase(k, t) ==
    \E off \in 0..(Len(t) - Len(k)) :
        \A j \in 1..Len(k) : LowerChar(t[off + j]) = LowerChar(k[j])

\* The first keyword, in the order of SENSITIVE_KEYWORDS, that occurs in t.
FirstKeyword(t) ==
    LET hits == { i \in 1..Len(SENSITIVE_KEYWORDS) :
                      OccursIgnoringCase(SENSITIVE_KEYWORDS[i], t) }
    IN  IF hits = {} THEN None
        ELSE Some(SENSITIVE_KEYWORDS[CHOOSE i \in hits : \A j \in hits : i <= j])

\* An alert destination is configured.
DestinationConfigured == ADMIN_CHAT_ID.some /\ ADMIN_CHAT_ID.val # <<>>

\* message_handler is past its keyword match and its decision to notify.
PastMatch == pc \notin {"idle", "dispatched"}

\* The one notification the claim describes: to the configured destination,
\* with the matched keyword and the sender's display name and id in its text.
IsTheAlert(m, user) ==
    /\ m.via = "send_message"
    /\ m.to = ADMIN_CHAT_ID.val
    /\ StrIn(FirstKeyword(RawText).val, m.text)
    /\ StrIn(user.first_name, m.text)
    /\ StrIn(str(user.id), m.text)

(***************************************************************************)
(* C5, as stated.  For every text message: a keyword in the text and a     *)
(* configured destination give exactly one attempted notification, to the  *)
(* destination, with the keyword and the sender's name and id; otherwise   *)
(* none is attempted.                                                      *)
(***************************************************************************)
C5_OneAlertPerKeywordMessage ==
    (TextMessage /\ PastMatch) =>
        IF FirstKeyword(RawText).some /\ DestinationConfigured
        THEN /\ Len(Alerts) = 1
             /\ update.val.effective_user.some
             /\ IsTheAlert(Alerts[1], update.val.effective_user.val)
        ELSE Alerts = <<>>

(***************************************************************************)
(* C5, amended.  The same for every text message whose sender is known;    *)
(* when the update has no effective_user, no notification is attempted.    *)
(***************************************************************************)
C5_OneAlertPerKeywordMessageOfKnownSender ==
    /\ Len(Alerts) <= 1
    /\ (TextMessage /\ PastMatch) =>
           IF /\ FirstKeyword(RawText).some
              /\ DestinationConfigured
              /\ update.val.effective_user.some
           THEN /\ Len(Alerts) = 1
                /\ IsTheAlert(Alerts[1], update.val.effective_user.val)
           ELSE Alerts = <<>>
    /\ ~TextMessage => Alerts = <<>>

C5_Witness ==
    /\ TextMessage /\ PastMatch
    /\ Len(Alerts) = 1
    /\ IsTheAlert(Alerts[1], update.val.effective_user.val)
    /\ update.val.effective_user.val.id = 42
    /\ FirstKeyword(RawText) = Some(SENSITIVE_KEYWORDS[3])

(***************************************************************************)
(* C6.  A failure of the notification (send_message raises, or the update  *)
(* has no sender to name) never ends message_handler and never changes the *)
(* reply: the handler goes on to the completion request, and the reply it  *)
(* sends is decided by the completion's outcome alone.                     *)
(***************************************************************************)
C6_AlertFailureIsSwallowed ==
    TextMessage =>
        /\ alert_outcome \in {"raise", "no_sender"} =>
               /\ Len(requests) = 1
               /\ raised => reply_outcome = "raise"
        /\ (pc = "await_reply" \/ HandlerEnded) =>
               HandlerReplies
                   = << ReplyText(ExpectedResponse(completion_outcome.val)
                                      \o <<"\n", "\n">> \o DISCLAIMER) >>

C6_Witness ==
    /\ TextMessage
    /\ alert_outcome = "no_sender"
    /\ pc = "finished"
    /\ ~raised
    /\ Len(HandlerReplies) = 1

(***************************************************************************)
(* C7.  The notification never blocks the generation: while send_message   *)
(* is pending, message_handler can go on (to the completion request and    *)
(* the reply) without the notification completing.                         *)
(***************************************************************************)
StepWithoutAlertCompletion ==
    \/ message_handler
    \/ \E o \in CompletionOutcomes : message_handler_after_completion(o)
    \/ \E o \in SendOutcomes : handler_reply_returns(o)

C7_GenerationDoesNotWaitForAlert ==
    pc = "await_alert" => ENABLED StepWithoutAlertCompletion

C10_ErrorHandlerRepliesOnce ==
    /\ Len(ErrorReplies) <= 1
    /\ ErrorReplies # <<>> => raised
    /\ (raised /\ update.some /\ update.val.message.some
          /\ pc \in {"await_error_reply", "finished"}) =>
           /\ Len(ErrorReplies) = 1
           /\ outbox[Len(outbox)] = ReplyText(UNEXPECTED_ERROR)

C10_Witness ==
    /\ raised
    /\ update.some /\ update.val.kind = "start"
    /\ pc = "finished"
    /\ error_reply_outcome = "ok"
    /\ Len(ErrorReplies) = 1

(***************************************************************************)
(* Vocabulary of the commands.                                             *)
(***************************************************************************)
\* The update being processed is a start or help command.
CommandEvent == update.some /\ update.val.kind \in {"start", "help"}

\* The fixed string of the command.
FixedReply == IF update.val.kind = "start" THEN welcome_message ELSE help_message

\* The command's handler has been entered.
CommandHandled == pc \notin {"idle", "dispatched"}

\* What a command never does: a completion request, a notification, a reply
\* that ends with the disclaimer.
NoGenerationNoAlertNoDisclaimer ==
    /\ requests = <<>>
    /\ Alerts = <<>>
    /\ \A i \in 1..Len(outbox) : ~EndsWith(outbox[i].text, DISCLAIMER)

\* The sends of the command's fixed string to the originating conversation.
FixedReplies == SelectSeq(OriginSends, LAMBDA m : m.text = FixedReply)

(***************************************************************************)
(* C11, as stated.  A start or help command gets exactly one send of its   *)
(* fixed string to the originating conversation, with no completion        *)
(* request, no notification and no disclaimer, whatever its text.          *)
(***************************************************************************)
C11_CommandGetsItsFixedReply ==
    CommandEvent =>
        /\ NoGenerationNoAlertNoDisclaimer
        /\ CommandHandled =>
               /\ Len(FixedReplies) = 1
               /\ OriginSends[1] = ReplyText(FixedReply)

(***************************************************************************)
(* C11, amended.  The same for a command whose update carries a message;   *)
(* for a command update without `message` nothing at all is sent.          *)
(***************************************************************************)
C11_CommandWithMessageGetsItsFixedReply ==
    CommandEvent =>
        /\ NoGenerationNoAlertNoDisclaimer
        /\ CommandHandled =>
               IF update.val.message.some
               THEN /\ Len(FixedReplies) = 1
                    /\ OriginSends[1] = ReplyText(FixedReply)
               ELSE outbox = <<>>

\* "/start procès" with a destination configured: the greeting, nothing else.
C11_Witness ==
    /\ CommandEvent
    /\ update.val.kind = "start"
    /\ update.val.message.some
    /\ FirstKeyword(update.val.message.val.text.val).some
    /\ DestinationConfigured
    /\ pc = "finished"
    /\ outbox = <<ReplyText(welcome_message)>>

(***************************************************************************)
(* C14.  Within one run the steps come in the order Received, Matched,     *)
(* (Alerted), Generated, Composed, Sent: the match and the prompt both use *)
(* the trimmed text of the message; a notification is sent only after a    *)
(* match and has completed before the completion request is issued; the    *)
(* request is issued only after the match; and nothing is sent to the      *)
(* originating conversation before the completion call has returned.       *)
(***************************************************************************)
C14_StepsInOrder ==
    TextMessage =>
        /\ PastMatch =>
               /\ user_text = Some(Trimmed(RawText))
               /\ sensitive = FirstKeyword(Trimmed(RawText))
        /\ Alerts # <<>> => PastMatch /\ sensitive.some
        /\ requests # <<>> =>
               /\ PastMatch
               /\ Alerts # <<>> => alert_outcome # "none"
               /\ requests[1].messages[2]
                      = [role |-> "user", content |-> Trimmed(RawText)]
        /\ OriginSends # <<>> =>
               /\ requests # <<>>
               /\ completion_outcome.some
               /\ response.some

\* " procès": trimmed for the match and the prompt, notified, answered.
C14_Witness ==
    /\ TextMessage
    /\ RawText # Trimmed(RawText)
    /\ Len(Alerts) = 1
    /\ alert_outcome = "ok"
    /\ Len(requests) = 1
    /\ reply_outcome = "ok"
    /\ pc = "finished"

(***************************************************************************)
(* C16.  For every update (start, help or text) at most one message is     *)
(* delivered to the originating conversation, error_handler's included: a  *)
(* send is delivered when its awaited call returns; the generic reply is   *)
(* attempted only after a handler raised, and no handler raises once its   *)
(* own reply is delivered.                                                 *)
(***************************************************************************)
Delivered ==
    (IF reply_outcome = "ok" THEN 1 ELSE 0)
        + (IF error_reply_outcome = "ok" THEN 1 ELSE 0)

C16_AtMostOneDelivered ==
    /\ Delivered <= 1
    /\ Len(OriginSends) <= 2
    /\ reply_outcome # "none" => Len(HandlerReplies) = 1
    /\ error_reply_outcome # "none" => Len(ErrorReplies) = 1
    /\ ErrorReplies # <<>> => raised /\ reply_outcome = "raise"
    /\ reply_outcome = "ok" => ~raised /\ pc = "finished"

\* The handler's reply failed, error_handler's was delivered.
C16_Witness ==
    /\ update.some
    /\ update.val.kind = "help"
    /\ reply_outcome = "raise"
    /\ error_reply_outcome = "ok"
    /\ pc = "finished"
    /\ Delivered = 1
    /\ Len(OriginSends) = 2

(***************************************************************************)
(* Vocabulary of the properties on several runs.                           *)
(***************************************************************************)
\* Every run: the executing one and the waiting ones.
Frames == { Suspended } \cup { runs[j] : j \in DOMAIN runs }

\* The raw text of a run's message.
FrameText(f) == f.update.val.message.val.text.val

\* The replies a run's handler sent to its conversation.
FrameReplies(f) ==
    SelectSeq(f.outbox, LAMBDA m : m.to = ORIGIN /\ m.text # UNEXPECTED_ERROR)

\* The requests of all runs.
FrameRequests ==
    UNION { { f.requests[i] : i \in 1..Len(f.requests) } : f \in Frames }

\* A step of the executing run's handler or of error_handler.
RunStep ==
    \/ message_handler
    \/ \E o \in SendOutcomes : message_handler_after_alert(o)
    \/ \E o \in RunCompletionOutcomes : message_handler_after_completion(o)
    \/ \E o \in SendOutcomes : handler_reply_returns(o)
    \/ error_handler
    \/ \E o \in SendOutcomes : error_handler_reply_returns(o)

\* What a run holds follows from its own text and its own outcomes.
OwnTextOwnOutcomes(f) ==
    /\ f.user_text.some => f.user_text.val = Trimmed(FrameText(f))
    /\ \A i \in 1..Len(f.requests) :
           f.requests[i].messages[2].content = Trimmed(FrameText(f))
    /\ Len(FrameReplies(f)) <= 1
    /\ f.pc \in {"raised", "await_error_reply", "finished"}
           => Len(FrameReplies(f)) = 1
    /\ \A i \in 1..Len(FrameReplies(f)) :
           /\ f.completion_outcome.some
           /\ FrameReplies(f)[i].text
                  = ExpectedResponse(f.completion_outcome.val)
                        \o <<"\n", "\n">> \o DISCLAIMER

(***************************************************************************)
(* C12.  With several runs in flight, interleaved at will: every run's     *)
(* trimmed text, request and reply follow from its own text and its own    *)
(* completion outcome, whatever the other runs did; and whatever state the *)
(* other runs are in, an error included, the executing run can take its    *)
(* next step, a run that has received nothing can receive, and every       *)
(* waiting run can resume.                                                 *)
(***************************************************************************)
C12_RunsDoNotInterfere ==
    /\ \A f \in Frames : f.update.some => OwnTextOwnOutcomes(f)
    /\ pc \notin {"idle", "finished"} => ENABLED RunStep
    /\ pc = "idle" => ENABLED (\E u \in RunUpdates : Receive(u))
    /\ \A j \in DOMAIN runs : ENABLED Yield(j)

\* One run ended in an error (its reply failed, error_handler's too); another,
\* with another text, got its reply delivered.
C12_Witness ==
    /\ \E j \in DOMAIN runs :
           /\ runs[j].update.some
           /\ runs[j].raised
           /\ runs[j].pc = "finished"
           /\ runs[j].error_reply_outcome = "raise"
           /\ update.some
           /\ FrameText(runs[j]) # RawText
    /\ pc = "finished"
    /\ reply_outcome = "ok"
    /\ ~raised
    /\ Len(HandlerReplies) = 1

(***************************************************************************)
(* C13.  When TELEGRAM_TOKEN or OPENAI_API_KEY is unset or empty in the    *)
(* environment, start-up never gets past the credential checks: it is      *)
(* before them or ended by their RuntimeError, no handler is registered,   *)
(* no update is received, nothing is sent and no request is made.          *)
(***************************************************************************)
CredentialAbsent(value) == ~value.some \/ Len(value.val) = 0

MissingCredential ==
    \/ CredentialAbsent(environ.TELEGRAM_TOKEN)
    \/ CredentialAbsent(environ.OPENAI_API_KEY)

BeforeChecks ==
    pc \in {"read_openai_settings", "import_openai", "load_environment",
            "check_credentials"}

FatalError ==
    pc \in {"RuntimeError: TELEGRAM_TOKEN", "RuntimeError: OPENAI_API_KEY"}

C13_MissingCredentialNeverServes ==
    MissingCredential =>
        /\ BeforeChecks \/ FatalError
        /\ handlers = {}
        /\ update = None
        /\ requests = <<>>
        /\ outbox = <<>>

\* An empty token: the first check ended the process.
C13_Witness ==
    /\ environ.TELEGRAM_TOKEN = Some(<<>>)
    /\ environ.OPENAI_API_KEY = Some(API_KEY)
    /\ pc = "RuntimeError: TELEGRAM_TOKEN"
    /\ handlers = {}

(***************************************************************************)
(* C15.  Every completion request carries the configured model, the        *)
(* configured max_tokens, temperature 0.3 and the fixed system message,    *)
(* then one user message; the requests of any two runs are equal but for   *)
(* the content of the user message.                                        *)
(***************************************************************************)
WithoutUserPrompt(r) ==
    [r EXCEPT !.messages = << r.messages[1],
                              [r.messages[2] EXCEPT !.content = <<>>] >>]

C15_RequestsDifferOnlyInUserPrompt ==
    /\ \A r \in FrameRequests :
           /\ r.model = OPENAI_MODEL
           /\ r.max_tokens = OPENAI_MAX_TOKENS
           /\ r.temperature = "0.3"
           /\ Len(r.messages) = 2
           /\ r.messages[1] = [role |-> "system", content |-> system_message]
           /\ r.messages[2].role = "user"
    /\ \A r, q \in FrameRequests : WithoutUserPrompt(r) = WithoutUserPrompt(q)

\* Two runs whose texts differ have each made their request.
C15_Witness ==
    /\ Len(requests) = 1
    /\ \E j \in DOMAIN runs :
           /\ Len(runs[j].requests) = 1
           /\ runs[j].requests[1].messages[2].content
                  # requests[1].messages[2].content
           /\ WithoutUserPrompt(runs[j].requests[1])
                  = WithoutUserPrompt(requests[1])

(***************************************************************************)
(* C17.  With both credentials set, no statement of the module reads a     *)
(* name that nothing has bound yet: its execution never raises NameError.  *)
(***************************************************************************)
C17_EveryNameBoundWhenRead ==
    (Truthy(environ.TELEGRAM_TOKEN) /\ Truthy(environ.OPENAI_API_KEY)) =>
        namespace.NameError = {}

=============================================================================
